---- MODULE Spec2Model ----
(***************************************************************************)
(* MarathonSpawner (marathonspawner.py): the launch / poll / discover /    *)
(* teardown behaviour of a JupyterHub spawner that runs one Marathon app   *)
(* per user.  The Marathon client, the resolver (socket.gethostbyname) and *)
(* the cluster are the environment: every call to them draws its response  *)
(* from a small set.                                                       *)
(*                                                                         *)
(* The spawners' coroutines share one IOLoop thread.  start never yields   *)
(* an unfinished future (self.poll() has finished when it is yielded) and  *)
(* time.sleep blocks the thread, so an operation that has begun runs to    *)
(* its end before any other begins: the position, loop variable and        *)
(* observations below are those of the one operation that runs or ran last.*)
(***************************************************************************)
EXTENDS Integers, Sequences, FiniteSets, TLC

\* ------------------------------------------------------------------ bounds
\* Largest configured start_timeout (seconds = loop iterations).
MaxTimeout == 3
\* Number of operations (start / stop / poll) the hub runs in all.
MaxOps == 2
\* Longest configured marathon_constraints list.
MaxConstraints == 2

\* ------------------------------------------------------- configuration
Spawners == {"s1", "s2"}
UserNames == {"alice", "bob"}
\* app_prefix = Unicode("jupyter", ...)
app_prefix == "jupyter"

\* ------------------------------------------------------------ environment
\* Hosts a task may report and what socket.gethostbyname makes of them.
Hosts == {"agent1", "agent2", "ghost"}
Resolvable == {"agent1", "agent2"}
gethostbyname(h) == IF h = "agent1" THEN "10.0.0.1" ELSE "10.0.0.2"
\* The port lists a task may report (ports[0] is the first bound port).
PortLists == {<< >>, <<31001>>, <<31002, 31001>>}
Tasks == [host : Hosts, ports : PortLists]
\* A second task, when the cluster reports two.
ExtraTasks == {[host |-> "agent2", ports |-> <<31002, 31001>>]}
TaskLists ==
    {<< >>} \cup {<<t>> : t \in Tasks}
            \cup {<<t, x>> : t \in Tasks, x \in ExtraTasks}

\* Values a coroutine returns.
Unset == [tag |-> "unset", ip |-> "", port |-> 0]
None == [tag |-> "None", ip |-> "", port |-> 0]
EmptyStr == [tag |-> "str", ip |-> "", port |-> 0]
Pair(ip, port) == [tag |-> "tuple", ip |-> ip, port |-> port]

\* Responses of MarathonClient.create_app: the created app, False, or an
\* exception (rejected by Marathon, Marathon unreachable, anything else).
CreateResponses == {"App", "False", "MarathonHttpError", "MarathonError", "OtherError"}
CreateExceptions == {"MarathonHttpError", "MarathonError", "OtherError"}

\* Responses of MarathonClient.get_app(name): an exception, or an app whose
\* tasks_healthy / tasks_running counters are reported.
NoSnapshot == [err |-> "unset", healthy |-> 0, running |-> 0]
Snapshot(h, r) == [err |-> "none", healthy |-> h, running |-> r]
QueryFailure(e) == [err |-> e, healthy |-> 0, running |-> 0]
QueryExceptions == {"NotFoundError", "MarathonError"}
Snapshots == {Snapshot(0, 1), Snapshot(1, 1), Snapshot(1, 2), Snapshot(2, 2)}

\* Responses of MarathonClient.get_app(name, embed_tasks=True).
NoTaskResp == [err |-> "unset", tasks |-> << >>]
TaskFailure(e) == [err |-> e, tasks |-> << >>]
TaskSnapshot(ts) == [err |-> "none", tasks |-> ts]

\* Responses of MarathonClient.delete_app(name).
DeleteResponses == {"ok", "MarathonError"}

\* Entries marathon_constraints may hold, in Marathon's REST format:
\* [field, operator] or [field, operator, value].
ConstraintEntries == {<<"hostname", "UNIQUE">>, <<"rack", "CLUSTER", "r1">>}
\* The lists of at most k entries.
ConstraintLists(k) ==
    UNION {[1..m -> ConstraintEntries] : m \in 0..k}
\* MarathonConstraint.from_json(c): the constraint of one configured entry.
from_json(c) ==
    [field |-> c[1], operator |-> c[2], value |-> IF Len(c) > 2 THEN c[3] ELSE ""]
\* A Python value that is None or a list.
PyNone == [none |-> TRUE, items |-> << >>]
\* No request has been built.
NoRequest == [id |-> "", constraints |-> << >>, instances |-> 0]

NoOne == "nobody"
NoCounts == [submit |-> 0, health |-> 0, fail |-> 0, zero |-> 0,
             task |-> 0, delete |-> 0, sleep |-> 0]
InitServer == [ip |-> "", port |-> 0]
NoPrev == [cur |-> NoOne, line |-> 0, ret |-> Unset, create |-> "unset"]

VARIABLES
    start_timeout,  \* Spawner.start_timeout (configuration)
    marathon_constraints,  \* MarathonSpawner.marathon_constraints (configuration)
    userName,       \* spawner -> self.user.name
    server,         \* spawner -> (self.user.server.ip, self.user.server.port)
    apps,           \* the app ids that exist in Marathon
    nOps,           \* operations begun so far
    cur,            \* the spawner whose operation runs or ran last
    op,             \* that operation: "start", "stop" or "poll"
    pc,             \* its position; "idle" when it has ended
    i,              \* loop variable of start's for loop
    ret,            \* the value the operation returned
    exc,            \* the exception that escaped it
    exitLine,       \* the source line it ended on
    n,              \* its Marathon calls and sleeps so far
    createResp,     \* the response to its create_app
    healthFirst,    \* whether its first health query reported one healthy task
    healthLast,     \* the response to its latest health query
    taskResp,       \* the response to its task-embedding query
    deleteResp,     \* the response to its delete_app
    existed,        \* whether its app existed in Marathon when it began
    ids,            \* the app ids it has passed to the Marathon client
    request,        \* the app request its create_app submitted
    prev            \* the operation before it: spawner, exit line, value, create_app response

vars == <<start_timeout, marathon_constraints, userName, server, apps, nOps, cur,
          op, pc, i, ret, exc, exitLine, n, createResp, healthFirst, healthLast,
          taskResp, deleteResp, existed, ids, request, prev>>

\* container_name leaving the user out: '/%s' % self.app_prefix.
container_name_no_user(s) == "/" \o app_prefix

\* '/%s/%s' % (self.app_prefix, self.user.name)
container_name(s) == "/" \o app_prefix \o "/" \o userName[s]

\* The state after construction, for the given choices of configuration.
InitWith(timeouts, constraintLists) ==
    /\ start_timeout \in timeouts
    /\ marathon_constraints \in constraintLists
    /\ userName \in {f \in [Spawners -> UserNames] : f["s1"] = "alice"}
    /\ server = [s \in Spawners |-> InitServer]
    /\ apps = {}
    /\ nOps = 0
    /\ cur = NoOne
    /\ op = "none"
    /\ pc = "idle"
    /\ i = 0
    /\ ret = Unset
    /\ exc = "none"
    /\ exitLine = 0
    /\ n = NoCounts
    /\ createResp = "unset"
    /\ healthFirst = FALSE
    /\ healthLast = NoSnapshot
    /\ taskResp = NoTaskResp
    /\ deleteResp = "unset"
    /\ existed = FALSE
    /\ ids = {}
    /\ request = NoRequest
    /\ prev = NoPrev

\* Any start_timeout, marathon_constraints left at its default [].
Init == InitWith(0..MaxTimeout, {<< >>})

\* Any marathon_constraints, start_timeout of one or two seconds.
InitConstraints == InitWith({1, 2}, ConstraintLists(MaxConstraints))

\* ------------------------------------------------------------ the cluster
\* What Marathon may answer to create_app for an id: an id that exists is a
\* naming conflict, never a new app.
CreateResponsesFor(id) ==
    IF id \in apps THEN CreateResponses \ {"App"} ELSE CreateResponses

\* What Marathon may answer to get_app(id): a failure, or (the app exists) a
\* snapshot of its task counters.
HealthResponses(id) ==
    {QueryFailure(e) : e \in QueryExceptions}
        \cup (IF id \in apps THEN Snapshots ELSE {})

\* What Marathon may answer to get_app(id, embed_tasks=True).
TaskResponses(id) ==
    {TaskFailure(e) : e \in QueryExceptions}
        \cup (IF id \in apps THEN {TaskSnapshot(ts) : ts \in TaskLists} ELSE {})

\* ------------------------------------------------------------ coroutines
\* The operation ends: it returns value, or error escapes it, at a source
\* line.  The IOLoop thread is free again.
End(value, error, line) ==
    /\ ret' = value
    /\ exc' = error
    /\ exitLine' = line
    /\ pc' = "idle"

\* The operation goes on to label and keeps the IOLoop thread.
Go(label) ==
    /\ ret' = Unset
    /\ exc' = "none"
    /\ exitLine' = 0
    /\ pc' = label

\* An operation begins on spawner s while the IOLoop thread is free.
Begin(s, name) ==
    /\ pc = "idle"
    /\ nOps < MaxOps
    /\ nOps' = nOps + 1
    /\ cur' = s
    /\ op' = name
    /\ existed' = (container_name(s) \in apps)
    /\ prev' = [cur |-> cur, line |-> exitLine, ret |-> ret, create |-> createResp]
    /\ i' = 0

\* range_has with the bound off by one: range(self.start_timeout + 1).
range_has_inclusive(k, timeout) == k <= timeout

\* for i in range(self.start_timeout): is there an iteration number k?
range_has(k, timeout) == k < timeout

\* create_exit with "except: pass": an exception of create_app is dropped
\* and start goes on to the loop.
create_exit_swallowed(r) ==
    IF r = "False" THEN 186 ELSE 0

\* create_exit without the "if app is False" test: a False goes on to the loop.
create_exit_unchecked(r) ==
    IF r \in CreateExceptions THEN 188 ELSE 0

\* try: create_app ... if app is False: return None / except: return None.
\* The line start returns on, or 0 when it goes on to the loop.
create_exit(r) ==
    IF r \in CreateExceptions THEN 188
    ELSE IF r = "False" THEN 186
    ELSE 0

\* poll without its try/except reading a failed query as a live app.
poll_result_failure_ready(r) ==
    IF r.err # "none" THEN None
    ELSE IF r.healthy = 1 THEN None
    ELSE EmptyStr

\* poll testing app.tasks_healthy >= 1 instead of == 1.
poll_result_at_least_one(r) ==
    IF r.err # "none" THEN EmptyStr
    ELSE IF r.healthy >= 1 THEN None
    ELSE EmptyStr

\* poll's return value for a get_app response.
poll_result(r) ==
    IF r.err # "none" THEN EmptyStr
    ELSE IF r.healthy = 1 THEN None
    ELSE EmptyStr

\* The line poll returns on.
poll_line(r) ==
    IF r.err # "none" THEN 210
    ELSE IF r.healthy = 1 THEN 213
    ELSE 214

\* get_ip_and_port without its assert: the first task is taken, however many
\* there are (app.tasks[0] of an empty list raises IndexError on line 126).
get_ip_and_port_no_assert(r) ==
    IF r.err # "none"
    THEN [exc |-> r.err, line |-> 123, ip |-> "", port |-> 0]
    ELSE IF r.tasks = << >>
    THEN [exc |-> "IndexError", line |-> 126, ip |-> "", port |-> 0]
    ELSE IF r.tasks[1].host \notin Resolvable
    THEN [exc |-> "gaierror", line |-> 126, ip |-> "", port |-> 0]
    ELSE IF r.tasks[1].ports = << >>
    THEN [exc |-> "IndexError", line |-> 127, ip |-> "", port |-> 0]
    ELSE [exc |-> "none", line |-> 127,
          ip |-> gethostbyname(r.tasks[1].host), port |-> r.tasks[1].ports[1]]

\* get_ip_and_port taking the last bound port, ports[-1], not the first.
get_ip_and_port_last_port(r) ==
    IF r.err # "none"
    THEN [exc |-> r.err, line |-> 123, ip |-> "", port |-> 0]
    ELSE IF Len(r.tasks) # 1
    THEN [exc |-> "AssertionError", line |-> 124, ip |-> "", port |-> 0]
    ELSE IF r.tasks[1].host \notin Resolvable
    THEN [exc |-> "gaierror", line |-> 126, ip |-> "", port |-> 0]
    ELSE IF r.tasks[1].ports = << >>
    THEN [exc |-> "IndexError", line |-> 127, ip |-> "", port |-> 0]
    ELSE [exc |-> "none", line |-> 127,
          ip |-> gethostbyname(r.tasks[1].host),
          port |-> r.tasks[1].ports[Len(r.tasks[1].ports)]]

\* get_ip_and_port for a get_app(embed_tasks=True) response: the exception
\* raised and its line, or the (ip, port) it returns.
get_ip_and_port(r) ==
    IF r.err # "none"
    THEN [exc |-> r.err, line |-> 123, ip |-> "", port |-> 0]
    ELSE IF Len(r.tasks) # 1
    THEN [exc |-> "AssertionError", line |-> 124, ip |-> "", port |-> 0]
    ELSE IF r.tasks[1].host \notin Resolvable
    THEN [exc |-> "gaierror", line |-> 126, ip |-> "", port |-> 0]
    ELSE IF r.tasks[1].ports = << >>
    THEN [exc |-> "IndexError", line |-> 127, ip |-> "", port |-> 0]
    ELSE [exc |-> "none", line |-> 127,
          ip |-> gethostbyname(r.tasks[1].host), port |-> r.tasks[1].ports[1]]

\* get_constraints, lines 117-120: the list is built and not returned, so
\* the call evaluates to None.
get_constraints ==
    LET constraints == [k \in 1..Len(marathon_constraints) |->
                           from_json(marathon_constraints[k])]
    IN PyNone

\* MarathonApp(constraints=...) keeps the list it is given, and [] for None.
app_constraints(v) == IF v.none THEN << >> ELSE v.items

\* start, lines 172-181: the MarathonApp built for spawner s.
app_request(s) ==
    [id |-> container_name(s),
     constraints |-> app_constraints(get_constraints),
     instances |-> 1]

\* The counters after one more health query answered r.
count_health(c, r) ==
    [c EXCEPT !.health = @ + 1,
              !.fail = @ + (IF r.err # "none" THEN 1 ELSE 0),
              !.zero = @ + (IF r.err = "none" /\ r.healthy = 0 THEN 1 ELSE 0)]

\* start, lines 159-190: build the request, create_app, enter the loop.
start_submit(s) ==
    /\ Begin(s, "start")
    /\ \E r \in CreateResponsesFor(container_name(s)) :
         /\ createResp' = r
         /\ apps' = IF r = "App" THEN apps \cup {container_name(s)} ELSE apps
         /\ IF create_exit(r) # 0
            THEN End(None, "none", create_exit(r))
            ELSE IF range_has(0, start_timeout)
            THEN Go("poll")
            ELSE End(None, "none", 198)
    /\ n' = [NoCounts EXCEPT !.submit = 1]
    /\ healthFirst' = FALSE
    /\ healthLast' = NoSnapshot
    /\ taskResp' = NoTaskResp
    /\ deleteResp' = "unset"
    /\ ids' = {container_name(s)}
    /\ request' = app_request(s)
    /\ UNCHANGED <<start_timeout, marathon_constraints, userName, server>>

\* start_poll without the "if running is None" test: the address is looked up
\* after every health query.
start_poll_resolve_always ==
    /\ pc = "poll"
    /\ \E r \in HealthResponses(container_name(cur)) :
         /\ healthLast' = r
         /\ healthFirst' = IF n.health = 0
                           THEN (r.err = "none" /\ r.healthy = 1)
                           ELSE healthFirst
         /\ n' = count_health(n, r)
         /\ Go("resolve")
    /\ ids' = ids \cup {container_name(cur)}
    /\ UNCHANGED <<start_timeout, marathon_constraints, userName, server, apps,
                   nOps, cur, op, i, createResp, taskResp, deleteResp, existed,
                   request, prev>>

\* start, lines 191-192: running = yield self.poll(); if running is None.
start_poll ==
    /\ pc = "poll"
    /\ \E r \in HealthResponses(container_name(cur)) :
         /\ healthLast' = r
         /\ healthFirst' = IF n.health = 0
                           THEN (r.err = "none" /\ r.healthy = 1)
                           ELSE healthFirst
         /\ n' = count_health(n, r)
         /\ IF poll_result(r) = None
            THEN Go("resolve")
            ELSE Go("sleep")
    /\ ids' = ids \cup {container_name(cur)}
    /\ UNCHANGED <<start_timeout, marathon_constraints, userName, server, apps,
                   nOps, cur, op, i, createResp, taskResp, deleteResp, existed,
                   request, prev>>

\* start storing the address as soon as the host resolves, before the port
\* is read: a task without ports leaves the address set and the port not.
start_get_ip_and_port_early_ip ==
    /\ pc = "resolve"
    /\ \E r \in TaskResponses(container_name(cur)) :
         LET g == get_ip_and_port(r) IN
         /\ taskResp' = r
         /\ IF g.exc = "IndexError"
            THEN /\ End(Unset, g.exc, g.line)
                 /\ server' = [server EXCEPT
                                  ![cur].ip = gethostbyname(r.tasks[1].host)]
            ELSE IF g.exc # "none"
            THEN /\ End(Unset, g.exc, g.line)
                 /\ server' = server
            ELSE /\ server' = [server EXCEPT ![cur] = [ip |-> g.ip, port |-> g.port]]
                 /\ End(Pair(g.ip, g.port), "none", 196)
    /\ n' = [n EXCEPT !.task = @ + 1]
    /\ ids' = ids \cup {container_name(cur)}
    /\ UNCHANGED <<start_timeout, marathon_constraints, userName, apps, nOps, cur,
                   op, i, createResp, healthFirst, healthLast, deleteResp, existed,
                   request, prev>>

\* start, lines 193-196: get_ip_and_port, record the endpoint, return it.
start_get_ip_and_port ==
    /\ pc = "resolve"
    /\ \E r \in TaskResponses(container_name(cur)) :
         LET g == get_ip_and_port(r) IN
         /\ taskResp' = r
         /\ IF g.exc # "none"
            THEN /\ End(Unset, g.exc, g.line)
                 /\ server' = server
            ELSE /\ server' = [server EXCEPT ![cur] = [ip |-> g.ip, port |-> g.port]]
                 /\ End(Pair(g.ip, g.port), "none", 196)
    /\ n' = [n EXCEPT !.task = @ + 1]
    /\ ids' = ids \cup {container_name(cur)}
    /\ UNCHANGED <<start_timeout, marathon_constraints, userName, apps, nOps, cur,
                   op, i, createResp, healthFirst, healthLast, deleteResp, existed,
                   request, prev>>

\* start_sleep deleting the app when the loop runs out, before return None.
start_sleep_cleanup ==
    /\ pc = "sleep"
    /\ i' = i + 1
    /\ IF range_has(i + 1, start_timeout)
       THEN /\ Go("poll")
            /\ n' = [n EXCEPT !.sleep = @ + 1]
            /\ apps' = apps
       ELSE /\ End(None, "none", 198)
            /\ n' = [n EXCEPT !.sleep = @ + 1, !.delete = @ + 1]
            /\ apps' = apps \ {container_name(cur)}
    /\ UNCHANGED <<start_timeout, marathon_constraints, userName, server,
                   nOps, cur, op, createResp, healthFirst, healthLast, taskResp,
                   deleteResp, existed, ids, request, prev>>

\* start_sleep testing the loop bound against the iteration just finished: one
\* more iteration than range(self.start_timeout) has.
start_sleep_stale_index ==
    /\ pc = "sleep"
    /\ n' = [n EXCEPT !.sleep = @ + 1]
    /\ i' = i + 1
    /\ IF range_has(i, start_timeout)
       THEN Go("poll")
       ELSE End(None, "none", 198)
    /\ UNCHANGED <<start_timeout, marathon_constraints, userName, server, apps,
                   nOps, cur, op, createResp, healthFirst, healthLast, taskResp,
                   deleteResp, existed, ids, request, prev>>

\* start, lines 197, 190, 198: time.sleep(1), next iteration or return None.
start_sleep ==
    /\ pc = "sleep"
    /\ n' = [n EXCEPT !.sleep = @ + 1]
    /\ i' = i + 1
    /\ IF range_has(i + 1, start_timeout)
       THEN Go("poll")
       ELSE End(None, "none", 198)
    /\ UNCHANGED <<start_timeout, marathon_constraints, userName, server, apps,
                   nOps, cur, op, createResp, healthFirst, healthLast, taskResp,
                   deleteResp, existed, ids, request, prev>>

\* stop looking the app up before deleting it: a missing app is an error.
stop_checks_first(s) ==
    /\ Begin(s, "stop")
    /\ \E r \in DeleteResponses :
         /\ deleteResp' = r
         /\ apps' = IF r = "ok" THEN apps \ {container_name(s)} ELSE apps
         /\ IF container_name(s) \notin apps
            THEN End(Unset, "NotFoundError", 202)
            ELSE IF r = "ok"
            THEN End(None, "none", 203)
            ELSE End(Unset, r, 202)
    /\ n' = [NoCounts EXCEPT !.delete = 1]
    /\ createResp' = "unset"
    /\ healthFirst' = FALSE
    /\ healthLast' = NoSnapshot
    /\ taskResp' = NoTaskResp
    /\ ids' = {container_name(s)}
    /\ request' = NoRequest
    /\ UNCHANGED <<start_timeout, marathon_constraints, userName, server>>

\* stop, lines 200-203: delete_app, return.
stop(s) ==
    /\ Begin(s, "stop")
    /\ \E r \in DeleteResponses :
         /\ deleteResp' = r
         /\ apps' = IF r = "ok" THEN apps \ {container_name(s)} ELSE apps
         /\ IF r = "ok"
            THEN End(None, "none", 203)
            ELSE End(Unset, r, 202)
    /\ n' = [NoCounts EXCEPT !.delete = 1]
    /\ createResp' = "unset"
    /\ healthFirst' = FALSE
    /\ healthLast' = NoSnapshot
    /\ taskResp' = NoTaskResp
    /\ ids' = {container_name(s)}
    /\ request' = NoRequest
    /\ UNCHANGED <<start_timeout, marathon_constraints, userName, server>>

\* poll, lines 205-214, called by the hub outside a launch.
poll(s) ==
    /\ Begin(s, "poll")
    /\ \E r \in HealthResponses(container_name(s)) :
         /\ healthLast' = r
         /\ healthFirst' = (r.err = "none" /\ r.healthy = 1)
         /\ n' = count_health(NoCounts, r)
         /\ End(poll_result(r), "none", poll_line(r))
    /\ createResp' = "unset"
    /\ taskResp' = NoTaskResp
    /\ deleteResp' = "unset"
    /\ ids' = {container_name(s)}
    /\ request' = NoRequest
    /\ UNCHANGED <<start_timeout, marathon_constraints, userName, server, apps>>

Next ==
    \/ \E s \in Spawners : start_submit(s)
    \/ start_poll
    \/ start_get_ip_and_port
    \/ start_sleep
    \/ \E s \in Spawners : stop(s)
    \/ \E s \in Spawners : poll(s)

Spec == Init /\ [][Next]_vars

\* The same spawners under every configured list of constraints.
SpecConstraints == InitConstraints /\ [][Next]_vars

\* Every call start makes returns or raises, and time.sleep(1) returns: a
\* start that has begun takes its next step.
FairSpec ==
    Spec /\ WF_vars(start_poll) /\ WF_vars(start_get_ip_and_port)
         /\ WF_vars(start_sleep)

\* ------------------------------------------------------------- vocabulary
\* A launch (start) has ended.
LaunchEnded == op = "start" /\ pc = "idle"
\* Its create_app was accepted.
Accepted == createResp = "App"
\* The latest health query reported exactly one healthy task.
LastHealthy == healthLast.err = "none" /\ healthLast.healthy = 1
\* The task-embedding query answered one task with a resolvable host and a
\* bound port.
OneResolvableTask ==
    /\ taskResp.err = "none"
    /\ Len(taskResp.tasks) = 1
    /\ taskResp.tasks[1].host \in Resolvable
    /\ taskResp.tasks[1].ports # << >>
\* The endpoint of that task: its resolved host and first bound port.
TaskEndpoint ==
    Pair(gethostbyname(taskResp.tasks[1].host), taskResp.tasks[1].ports[1])
\* The outcomes of a launch, by the statement it ended on.
Ready == LaunchEnded /\ exitLine = 196
TimedOut == LaunchEnded /\ exitLine = 198
SubmitFailed == LaunchEnded /\ exitLine \in {186, 188}
\* The failed outcome a launch that ended on line with create_app response
\* create stands for: a False or a rejection is Rejected, any other submit
\* exception Unreachable, the return after the loop TimedOut.
FailedOutcome(create, line) ==
    IF line = 198 THEN "TimedOut"
    ELSE IF line = 186 \/ (line = 188 /\ create = "MarathonHttpError") THEN "Rejected"
    ELSE IF line = 188 THEN "Unreachable"
    ELSE "none"

\* ------------------------------------------------------------------ claims
\* C1 (timeout): a launch whose create_app was accepted and whose health
\* queries all reported 0 healthy tasks has made exactly start_timeout health
\* queries when it ends, ends with the timeout return (None, line 198), and
\* no exception escapes it; while it runs it never exceeds start_timeout
\* queries.
C1_Timeout ==
    (op = "start" /\ Accepted /\ n.zero = n.health) =>
        /\ n.health <= start_timeout
        /\ exc = "none"
        /\ pc = "idle" => /\ n.health = start_timeout
                          /\ TimedOut
                          /\ ret = None
                          /\ n.task = 0

C1_Witness ==
    /\ TimedOut /\ Accepted
    /\ start_timeout >= 2
    /\ n.zero = n.health /\ n.health = start_timeout

\* C2 (happy path): a launch whose create_app was accepted, whose first
\* health query reported exactly one healthy task and whose task query
\* answered one resolvable task ends Ready with that task's (address, first
\* port), after exactly one health query and without a sleep.
C2_HappyPath ==
    (LaunchEnded /\ Accepted /\ healthFirst /\ OneResolvableTask) =>
        /\ Ready
        /\ ret = TaskEndpoint
        /\ exc = "none"
        /\ n.health = 1
        /\ n.sleep = 0
        /\ n.task = 1

C2_Witness ==
    /\ Ready /\ healthFirst /\ OneResolvableTask
    /\ Len(taskResp.tasks[1].ports) = 2
    /\ ret = Pair("10.0.0.1", 31002)

\* C3 (failed submit): a launch whose create_app returned False or raised
\* (rejected, unreachable or anything else) has ended at once, returning None
\* from the submit block, with no health query, no task query and no delete,
\* and no exception escapes it.
C3_FailedSubmitStops ==
    (op = "start" /\ createResp \in {"False"} \cup CreateExceptions) =>
        /\ SubmitFailed
        /\ ret = None
        /\ exc = "none"
        /\ n = [NoCounts EXCEPT !.submit = 1]

C3_Witness ==
    /\ SubmitFailed /\ createResp = "False" /\ n.health = 0 /\ n.delete = 0
    /\ start_timeout >= 1

\* C4 (transient query failure): a launch whose first k health queries
\* failed (1 <= k < start_timeout) and whose query k+1 reported exactly one
\* healthy task leaves the loop for address resolution after exactly k+1
\* queries, k sleeps and k iterations used up, and ends Ready when the task
\* resolves; and a launch never ends on a failed query while iterations are
\* left.
C4_TransientFailure ==
    /\ (op = "start" /\ Accepted /\ n.fail >= 1 /\ n.health = n.fail + 1
            /\ LastHealthy) =>
           /\ n.fail < start_timeout
           /\ i = n.fail
           /\ n.sleep = n.fail
           /\ pc = "resolve" \/ (pc = "idle" /\ n.task = 1)
           /\ (pc = "idle" /\ OneResolvableTask) => (Ready /\ ret = TaskEndpoint)
    /\ (LaunchEnded /\ Accepted /\ healthLast.err \in QueryExceptions) =>
           (TimedOut /\ n.health = start_timeout)

C4_Witness ==
    /\ Ready /\ n.fail = 2 /\ n.health = 3 /\ n.sleep = 2
    /\ healthLast = Snapshot(1, 1)

\* C5 (distinguishable failures): two launches that failed in different
\* ways (Rejected, Unreachable, TimedOut) returned different values.
C5_FailuresDistinguishable ==
    (/\ LaunchEnded
     /\ FailedOutcome(createResp, exitLine) # "none"
     /\ FailedOutcome(prev.create, prev.line) # "none"
     /\ FailedOutcome(createResp, exitLine) # FailedOutcome(prev.create, prev.line))
        => ret # prev.ret

\* C6 (no raw exception): no exception of the Marathon client escapes a
\* launch.
C6_NoRawExceptionEscapes ==
    op = "start" => exc \notin QueryExceptions

\* C7 (address resolution): a launch whose task query answered exactly one
\* task with a resolvable host h and ports <<p, ...>> returns
\* (gethostbyname(h), p); one whose task query answered zero or several tasks
\* ends in an error (the failed assert), returns nothing and sets no endpoint.
C7_AddressResolution ==
    (LaunchEnded /\ n.task = 1 /\ taskResp.err = "none") =>
        /\ OneResolvableTask => (Ready /\ ret = TaskEndpoint /\ exc = "none")
        /\ Len(taskResp.tasks) # 1 =>
               /\ exc = "AssertionError"
               /\ exitLine = 124
               /\ ret = Unset

C7_Witness ==
    /\ LaunchEnded /\ n.task = 1 /\ taskResp.err = "none"
    /\ Len(taskResp.tasks) = 2
    /\ taskResp.tasks[1].host \in Resolvable
    /\ taskResp.tasks[1].ports # << >>
    /\ exc = "AssertionError"

\* C8 (health predicate): a health snapshot sends the launch on to address
\* resolution (Healthy) if and only if it reports exactly one task and that
\* task healthy; any other snapshot sends it to the sleep (StillStarting).
C8_HealthyIffOneHealthyTask ==
    (op = "start" /\ pc \in {"resolve", "sleep"} /\ healthLast.err = "none") =>
        (pc = "resolve" <=> (healthLast.healthy = 1 /\ healthLast.running = 1))

\* C9 (no partial endpoint): user.server changes only in the step in which
\* a launch of that spawner returns (ip, port), and then to exactly that
\* pair; and after a launch has returned a pair the server holds it.
C9_NoPartialEndpoint ==
    /\ [](Ready => ret = Pair(server[cur].ip, server[cur].port))
    /\ [][\A s \in Spawners :
            server'[s] # server[s] =>
                /\ s = cur' /\ op' = "start" /\ pc' = "idle"
                /\ exitLine' = 196
                /\ ret' = Pair(server'[s].ip, server'[s].port)]_vars

C9_Witness ==
    /\ LaunchEnded /\ exc = "IndexError"
    /\ server[cur] = InitServer
    /\ prev.cur \in Spawners \ {cur}
    /\ prev.line = 196
    /\ prev.ret = Pair("10.0.0.1", 31001)
    /\ server[prev.cur] = [ip |-> "10.0.0.1", port |-> 31001]

\* C10 (teardown idempotence): every stop makes exactly one delete_app and no
\* other call; a stop whose delete_app returns ends without error and
\* returns None, whether or not the app existed, so a second stop in a row
\* gives the same result as the first.
C10_StopIdempotent ==
    op = "stop" =>
        /\ pc = "idle"
        /\ n = [NoCounts EXCEPT !.delete = 1]
        /\ deleteResp = "ok" => (ret = None /\ exc = "none" /\ exitLine = 203)
        /\ (deleteResp = "ok" /\ prev.cur = cur /\ prev.line = 203) =>
               ret = prev.ret

C10_Witness ==
    /\ op = "stop" /\ pc = "idle" /\ ~existed /\ deleteResp = "ok"
    /\ prev.cur = cur /\ prev.line = 203
    /\ ret = None /\ exc = "none"

\* C11 (standalone poll): a poll called outside a launch ends at once and
\* never raises; it returns None (ready) exactly when its get_app succeeded
\* with tasks_healthy = 1 and "" (not ready) in every other case, failed
\* query included; it makes that one query, no create_app and no delete_app,
\* and leaves the apps in Marathon and every user.server as they were.
C11_PollReadOnly ==
    /\ [](op = "poll" =>
            /\ pc = "idle"
            /\ exc = "none"
            /\ ret = (IF healthLast.err = "none" /\ healthLast.healthy = 1
                      THEN None ELSE EmptyStr)
            /\ n = [NoCounts EXCEPT
                       !.health = 1,
                       !.fail = IF healthLast.err # "none" THEN 1 ELSE 0,
                       !.zero = IF healthLast.err = "none" /\ healthLast.healthy = 0
                                THEN 1 ELSE 0])
    /\ [][(op' = "poll" /\ nOps' # nOps) => (apps' = apps /\ server' = server)]_vars

C11_Witness ==
    /\ op = "poll" /\ pc = "idle"
    /\ healthLast.err = "MarathonError"
    /\ ret = EmptyStr
    /\ prev.cur = cur /\ prev.line = 196
    /\ server[cur] # InitServer

\* C12 (no serialising behind a sleep): while a launch is in its one-second
\* pause and the hub has another operation to run, a launch for a spawner of
\* another user can begin (submit) before the pausing launch has ended.
C12_SleepDoesNotBlockOthers ==
    (/\ op = "start" /\ pc = "sleep"
     /\ nOps < MaxOps
     /\ \E s \in Spawners : userName[s] # userName[cur])
        => \E s \in Spawners :
               /\ userName[s] # userName[cur]
               /\ ENABLED start_submit(s)

\* C13 (naming conflict): a launch whose app id already exists in Marathon
\* when it submits is not accepted; it ends in the submit block returning
\* None, without any health query, task query or delete, as Rejected when
\* Marathon answered with its conflict (or with False); and the existing app
\* is still there, the set of apps unchanged by the launch.
C13_ConflictRejected ==
    /\ []((op = "start" /\ existed) =>
            /\ createResp # "App"
            /\ SubmitFailed
            /\ ret = None
            /\ n = [NoCounts EXCEPT !.submit = 1]
            /\ container_name(cur) \in apps
            /\ createResp \in {"False", "MarathonHttpError"} =>
                   FailedOutcome(createResp, exitLine) = "Rejected")
    /\ [][(op' = "start" /\ nOps' # nOps /\ existed') => apps' = apps]_vars

C13_Witness ==
    /\ LaunchEnded /\ existed
    /\ createResp = "MarathonHttpError" /\ exitLine = 188
    /\ prev.cur = cur /\ prev.line = 198 /\ prev.create = "App"
    /\ start_timeout >= 1
    /\ container_name(cur) \in apps

\* C14 (single correlation key): every id an operation passes to Marathon
\* (create_app and the request's id in start, get_app in poll and in address
\* resolution, delete_app in stop) is /<app_prefix>/<user name> of its
\* spawner's user; the apps in Marathon change only by that id; and a stop
\* that follows its spawner's accepted launch finds that app and deletes it.
C14_SingleCorrelationKey ==
    /\ [](op # "none" => ids = {"/" \o app_prefix \o "/" \o userName[cur]})
    /\ [](op = "start" => request.id = "/" \o app_prefix \o "/" \o userName[cur])
    /\ []((op = "stop" /\ deleteResp = "ok" /\ prev.cur = cur /\ prev.create = "App") =>
            (existed /\ "/" \o app_prefix \o "/" \o userName[cur] \notin apps))
    /\ [][apps' # apps =>
            (apps' \ apps) \cup (apps \ apps')
                = {"/" \o app_prefix \o "/" \o userName[cur']}]_vars

C14_Witness ==
    /\ op = "stop" /\ pc = "idle" /\ deleteResp = "ok"
    /\ prev.cur = cur /\ prev.create = "App" /\ prev.line = 196
    /\ existed
    /\ userName[cur] = "bob"
    /\ ids = {"/jupyter/bob"}
    /\ apps = {}

\* C15 (constraints submitted): the app request a launch submits carries one
\* constraint per entry of marathon_constraints, in order.
C15_ConstraintsSubmitted ==
    op = "start" =>
        request.constraints =
            [k \in 1..Len(marathon_constraints) |-> from_json(marathon_constraints[k])]

\* C16 (bounded effort and termination): whatever Marathon answers, a launch
\* has made exactly one create_app call, at most start_timeout health queries
\* and at most one task query; no step of a running launch submits again; and
\* a launch that has begun ends.
C16_BoundedEffort ==
    /\ [](op = "start" =>
            /\ n.submit = 1
            /\ n.health <= (IF start_timeout > 0 THEN start_timeout ELSE 0)
            /\ n.task <= 1)
    /\ [][(op = "start" /\ nOps' = nOps) => (n'.submit = n.submit /\ createResp' = createResp)]_vars
    /\ ((op = "start" /\ pc # "idle") ~> LaunchEnded)

\* A launch polled start_timeout times, found the app not ready each time and
\* ended on line 198.
C16_Witness ==
    /\ LaunchEnded /\ TimedOut /\ Accepted
    /\ start_timeout >= 2
    /\ n.submit = 1 /\ n.health = start_timeout /\ n.task = 0
    /\ n.sleep = start_timeout

\* C17 (call ordering): a launch queries Marathon only after create_app
\* returned an app; the step that enters the address lookup is a health query
\* that reported one healthy task, and the step that leaves it is the task
\* query; the task query ends the launch, and a launch that has ended makes
\* no further call: the next step is a new operation.
C17_CallOrdering ==
    /\ [](op = "start" =>
            /\ (n.health > 0 \/ n.task > 0 \/ pc # "idle") => Accepted
            /\ (pc = "resolve" \/ n.task > 0) => LastHealthy
            /\ n.task > 0 => pc = "idle")
    /\ [][pc' = "resolve" => (n'.health = n.health + 1 /\ n'.task = 0)]_vars
    /\ [][(op = "start" /\ n'.task # n.task /\ nOps' = nOps)
            => (pc = "resolve" /\ LastHealthy /\ n'.health = n.health)]_vars
    /\ [][LaunchEnded => nOps' = nOps + 1]_vars

\* A launch whose first health query was not healthy, whose second was, and
\* whose task query then returned the endpoint.
C17_Witness ==
    /\ LaunchEnded /\ Ready /\ Accepted /\ LastHealthy
    /\ ~healthFirst
    /\ n.submit = 1 /\ n.health = 2 /\ n.task = 1

\* C18 (launch never tears down): a launch makes no delete_app call and
\* removes no app; an accepted launch that has ended, however it ended, has
\* left its app in Marathon; only a stop removes an app.
C18_LaunchNeverDeletes ==
    /\ [](op = "start" => (n.delete = 0 /\ deleteResp = "unset"))
    /\ []((LaunchEnded /\ Accepted) => container_name(cur) \in apps)
    /\ [][op' = "start" => apps \subseteq apps']_vars
    /\ [][apps' # apps /\ ~(apps \subseteq apps') => op' = "stop"]_vars

\* An accepted launch timed out after polling and its app is still there.
C18_Witness ==
    /\ LaunchEnded /\ Accepted /\ TimedOut
    /\ n.health >= 1 /\ n.delete = 0
    /\ container_name(cur) \in apps

====
